---- MODULE Spec2Model ----
(***************************************************************************)
(* Model of learning.base (the pattern selection functions, Model.train    *)
(* with its error_break / stagnation breaks and its reset-and-retry        *)
(* policy, the train_step Model defines, serialize / unserialize) and of   *)
(* learning.architecture.rbf.RBF (activate, reset, train_step and the      *)
(* optimizer callbacks), as one state machine.                             *)
(*                                                                         *)
(* One behaviour is one object and one top-level call.  The object is a    *)
(* stub subclass of Model whose train_step returns the values of a fixed   *)
(* list `outputs` (the test helpers SetOutputModel and ManySetOutputsModel *)
(* are of this kind), a subclass that implements only _train_increment, an *)
(* RBF, or none at all when a module-level function is called.             *)
(*                                                                         *)
(* Floats are fixed-point numbers counted in thousandths (0.001).  The     *)
(* sentinel 1e10 is 10^13 thousandths, beyond TLC's 32-bit integers, so a  *)
(* number is a pair <<hi, lo>> with value hi * Base + lo, 0 <= lo < Base.  *)
(* RBF parameters are plain integers in thousandths, similarities exact    *)
(* fractions.                                                              *)
(***************************************************************************)
EXTENDS Integers, Sequences, FiniteSets, TLC

VARIABLES
    family,                     \* "stub" or "increment" (Model subclasses), "rbf",
                                \* or "none": no object, a module-level function is called
    outputs,                    \* stub: the errors its train_step returns, call by call
    sets_converged,             \* stub: train_step sets self.converged = True
    call,                       \* the top-level call: "none", "train", "reset", ...
    args,                       \* arguments of the call that no other variable holds
    result,                     \* what the call returned (None until it returns)
    pc,                         \* position inside the call
    exception,                  \* "none" or the exception that left the call
    iterations, retries, error_break,
    error_stagnant_distance, error_stagnant_threshold,
    defined_errors,             \* train_step calls of this train that returned an error
    hook_calls,                 \* train: the calls of the current iteration, with their batch
    jacobian_trace,             \* RBF: what the last _get_obj_jac of this step computed with
    error_improve_iters,        \* the keyword argument a train call passed: None or <<k>>
    pattern_select_func,        \* [name, size]: the selection function and its size argument
    post_pattern_callback,      \* self._post_pattern_callback is set
    input_matrix, target_matrix,    \* the dataset: sequences of rows
    selected_rows,              \* local `selected_rows` of the last selection
    selected_patterns,          \* <<inputs, targets>> the last selection returned
    events,                     \* _train_increment and callback invocations, in order
    increment_error,            \* increment: mean(errors**2) of a _train_increment, or None
    attempt,                    \* outer loop variable
    loop_index,                 \* values the inner range() has yielded this attempt
    iteration,                  \* self.iteration
    error,                      \* local `error` of train
    error_history,              \* local `error_history` of train
    converged,                  \* self.converged (FALSE while the attribute is unset)
    was_converged,              \* an earlier train_step of this call left converged TRUE
    broke,                      \* how the inner loop of this attempt ended
    steps,                      \* train_step calls made by this train call
    reset_calls,                \* reset() calls made
    avg_mse_calls,              \* avg_mse() evaluations made by train
    avg_mse_value,              \* value of the last avg_mse() evaluation at an attempt end
    shape, cluster_incrementally, scale_by_similarity,   \* RBF hyperparameters
    bias_vec, weight_matrix,    \* RBF parameters
    similarity_tensor,          \* RBF cache: None, <<batch>>, or <<batch, values>>
    clustering,                 \* the clustering sub-model: calls it has received
    optimizer,                  \* the optimizer: resets, jacobian field, and the vectors
                                \* next() was started from, probed last, and returned
    evals                       \* objective evaluations within the current optimizer.next

vars == <<family, outputs, sets_converged, call, pc, exception,
          iterations, retries, error_break,
          error_stagnant_distance, error_stagnant_threshold,
          attempt, loop_index, iteration, error, error_history, converged,
          broke, steps, reset_calls, avg_mse_calls, avg_mse_value,
          shape, cluster_incrementally, bias_vec, weight_matrix,
          similarity_tensor, clustering, optimizer, evals,
          args, result, pattern_select_func, post_pattern_callback,
          input_matrix, target_matrix, selected_rows, selected_patterns,
          events, increment_error, was_converged, scale_by_similarity,
          error_improve_iters, hook_calls, jacobian_trace, defined_errors>>

train_vars == <<iterations, retries, error_break,
                error_stagnant_distance, error_stagnant_threshold,
                pattern_select_func, post_pattern_callback, error_improve_iters>>
config_vars == <<family, outputs, sets_converged, shape, cluster_incrementally,
                 scale_by_similarity, input_matrix, target_matrix, increment_error>>
selection_vars == <<selected_rows, selected_patterns>>
direct_vars == <<args, result>>
rbf_vars == <<bias_vec, weight_matrix, similarity_tensor, clustering, optimizer, evals>>

----------------------------------------------------------------------------
(* Bounds of the model *)
MaxIterations == 4      \* iterations of an enumerated train call: 1..MaxIterations
MaxRetries == 1         \* retries of an enumerated train call: 0..MaxRetries
MaxDistance == 3        \* error_stagnant_distance: 1..MaxDistance
MaxPlanLen == 3         \* length of an enumerated stub output list
MaxEvals == 1           \* objective evaluations the optimizer makes per next()
MaxSamples == 2         \* rows of a tensor handed to activate: 1..MaxSamples
MaxRows == 4            \* rows of a dataset: 1..MaxRows; size arguments: 0..MaxRows

----------------------------------------------------------------------------
(* Numbers *)
Base == 10 ^ 7
None == <<>>
Milli(n) == <<n \div Base, n % Base>>

Less(a, b) == a[1] < b[1] \/ (a[1] = b[1] /\ a[2] < b[2])
LessEq(a, b) == ~Less(b, a)
Minus(a, b) == IF a[2] >= b[2] THEN <<a[1] - b[1], a[2] - b[2]>>
               ELSE <<a[1] - b[1] - 1, a[2] + Base - b[2]>>
AbsDiff(a, b) == IF Less(a, b) THEN Minus(b, a) ELSE Minus(a, b)

Sentinel == <<1000000, 0>>      \* 1e10

----------------------------------------------------------------------------
(* Model.train: the pieces of its loop *)

InitialHistoryShort(distance) == [k \in 1..(distance - 1) |-> Sentinel]
\* error_history = [1e10]*error_stagnant_distance
InitialHistory(distance) == [k \in 1..distance |-> Sentinel]

AnyClose(values, other_value, threshold) ==
    \E k \in 1..Len(values) : ~Less(threshold, AbsDiff(values[k], other_value))
\* _all_close: no value is more than threshold away from other_value
AllClose(values, other_value, threshold) ==
    \A k \in 1..Len(values) : ~Less(threshold, AbsDiff(values[k], other_value))

BreakAtOrBelow(err, break_at) == LessEq(err, break_at)
\* error < error_break
BreakEarly(err, break_at) == Less(err, break_at)

\* error_history.append(error); error_history.pop(0)
PushHistory(history, err) == Tail(Append(history, err))

\* attempt >= retries or (error is not None and avg_mse <= error_break);
\* `mse` is what avg_mse returns when the second operand is evaluated
EvaluatesWheneverDefined(att, rets, err) == err # None
EvaluatesAvgMse(att, rets, err) == att < rets /\ err # None
StopAttempts(att, rets, err, mse, break_at) ==
    att >= rets \/ (err # None /\ LessEq(mse, break_at))

NotCalled(calls, name, batch) == calls
\* a call train makes in the current iteration, with the batch involved:
\* the one pattern_select_func returned, or the *selected_patterns passed
Called(calls, name, batch) == Append(calls, [name |-> name, batch |-> batch])

\* the stub's train_step: the n-th call returns the n-th listed value, the
\* last one again once the list is used up
OutputAt(list, n) == IF n <= Len(list) THEN list[n] ELSE list[Len(list)]

----------------------------------------------------------------------------
(* Pattern selection functions.  An optional integer argument is None or  *)
(* <<k>>; rows are numbered from 0 as in the source.                       *)

AllRows(size, num_rows) == num_rows
\* if size is None: size = num_rows
DefaultSize(size, num_rows) == IF size = None THEN num_rows ELSE size[1]

IsInjective(s) == \A i, j \in 1..Len(s) : i # j => s[i] # s[j]
Reverse(s) == [i \in 1..Len(s) |-> s[Len(s) + 1 - i]]

SampleWithRepeats(num_rows, size) == [1..size -> 0..(num_rows - 1)]
\* random.sample(range(num_rows), size): the lists it can return
RandomSample(num_rows, size) ==
    {s \in [1..size -> 0..(num_rows - 1)] : IsInjective(s)}
\* [random.randint(0, max_index) for _ in range(size)]: both ends included
RandomInts(max_index, size) == [1..size -> 0..max_index]

\* matrix[selected_rows]
TakeRows(matrix, rows) == [i \in 1..Len(rows) |-> matrix[rows[i] + 1]]

MismatchedRows(input, target, rows) ==
    <<TakeRows(input, rows), TakeRows(target, Reverse(rows))>>
\* return input_matrix[selected_rows], target_matrix[selected_rows]
SelectRows(input, target, rows) ==
    <<TakeRows(input, rows), TakeRows(target, rows)>>

\* the outcomes of a selection function: the rows it picked and the pair
\* of matrices it returns
SelectIterative(input, target) ==
    {[rows |-> [i \in 1..Len(input) |-> i - 1], patterns |-> <<input, target>>]}

SelectSample(input, target, size) ==
    LET num_rows == Len(input)
    IN {[rows |-> r, patterns |-> SelectRows(input, target, r)] :
            r \in RandomSample(num_rows, DefaultSize(size, num_rows))}

SelectRandom(input, target, size) ==
    LET num_rows == Len(input)
        max_index == num_rows - 1
    IN {[rows |-> r, patterns |-> SelectRows(input, target, r)] :
            r \in RandomInts(max_index, DefaultSize(size, num_rows))}

\* random.sample raises ValueError when the sample is larger than the population
SampleTooLarge(input, size) == DefaultSize(size, Len(input)) > Len(input)

Selections(func, input, target) ==
    IF func.name = "select_iterative" THEN SelectIterative(input, target)
    ELSE IF func.name = "select_sample" THEN SelectSample(input, target, func.size)
    ELSE SelectRandom(input, target, func.size)

SelectionRaises(func, input) ==
    func.name = "select_sample" /\ SampleTooLarge(input, func.size)

----------------------------------------------------------------------------
(* Model.train_step as Model defines it: one _train_increment per pattern *)

Increment(input_vec, target_vec) ==
    [kind |-> "_train_increment", input |-> input_vec, target |-> target_vec]
Callback(input_vec, target_vec) ==
    [kind |-> "callback", input |-> input_vec, target |-> target_vec]

CallbackFirst(input_vec, target_vec, callback) ==
    (IF callback THEN <<Callback(input_vec, target_vec)>> ELSE <<>>)
    \o <<Increment(input_vec, target_vec)>>
\* the body of the loop: _train_increment, then the callback when one is set
PatternEvents(input_vec, target_vec, callback) ==
    <<Increment(input_vec, target_vec)>>
    \o (IF callback THEN <<Callback(input_vec, target_vec)>> ELSE <<>>)

\* for input_vec, target_vec in zip(input_matrix, target_matrix)
RECURSIVE TrainStepEvents(_, _, _)
TrainStepEvents(inputs, targets, callback) ==
    IF Len(inputs) = 0 \/ Len(targets) = 0 THEN <<>>
    ELSE PatternEvents(Head(inputs), Head(targets), callback)
         \o TrainStepEvents(Tail(inputs), Tail(targets), callback)

RECURSIVE SumOf(_)
SumOf(numbers) ==
    IF Len(numbers) = 0 THEN 0 ELSE Head(numbers)[2] + SumOf(Tail(numbers))

\* error += numpy.mean(errors**2), None from the first TypeError on, and
\* error / input_matrix.shape[0]; `losses` are the mean(errors**2) of the
\* patterns, None where _train_increment returned None
TrainStepError(losses) ==
    IF \E i \in 1..Len(losses) : losses[i] = None THEN None
    ELSE Milli(SumOf(losses) \div Len(losses))

----------------------------------------------------------------------------
(* RBF: parameter layout *)

FlattenColumnMajor(weights, bias) ==
    LET c == Len(weights)
        o == Len(bias)
    IN [k \in 1..(o + c * o) |->
            IF k <= o THEN bias[k]
            ELSE weights[((k - o - 1) % c) + 1][((k - o - 1) \div c) + 1]]

\* numpy.hstack([bias_vec, weight_matrix.ravel()])
FlattenWeights(weights, bias) ==
    LET c == Len(weights)
        o == Len(bias)
    IN [k \in 1..(o + c * o) |->
            IF k <= o THEN bias[k]
            ELSE weights[((k - o - 1) \div o) + 1][((k - o - 1) % o) + 1]]

\* flat_weights[:shape[1]], flat_weights[shape[1]:].reshape(shape)
UnflattenWeights(flat, shp) ==
    <<SubSeq(flat, 1, shp[2]),
      [i \in 1..shp[1] |-> [j \in 1..shp[2] |-> flat[shp[2] + (i - 1) * shp[2] + j]]]>>

JacobianAtOrBelowBreak(jacobian, norm_break) ==
    jacobian # None /\ jacobian[1] <= norm_break
\* self._optimizer.jacobian is not None and
\* numpy.linalg.norm(self._optimizer.jacobian) < self._jacobian_norm_break;
\* a jacobian is modelled by its norm, <<norm>>
JacobianBelowBreak(jacobian, norm_break) ==
    jacobian # None /\ jacobian[1] < norm_break

KeepParameters(flat, bias, weights, shp) == <<bias, weights>>
\* self._bias_vec, self._weight_matrix = _unflatten_weights(flat_weights, self._shape)
InstallParameters(flat, bias, weights, shp) == UnflattenWeights(flat, shp)

----------------------------------------------------------------------------
(* RBF.activate.  A similarity is an exact fraction <<numerator,           *)
(* denominator>> in lowest terms, or NaN, the result of 0.0 / 0.0;          *)
(* parameters and outputs are in thousandths, outputs as fractions.        *)

NaN == <<0, 0>>
Infinite == <<1, 0>>
Abs(n) == IF n < 0 THEN 0 - n ELSE n
RECURSIVE GCD(_, _)
GCD(a, b) == IF b = 0 THEN a ELSE GCD(b, a % b)
Ratio(num, den) ==
    LET g == GCD(Abs(num), den) IN <<num \div g, den \div g>>
IsNumber(x) == x[2] # 0

RatAdd(x, y) ==
    IF IsNumber(x) /\ IsNumber(y)
    THEN Ratio(x[1] * y[2] + y[1] * x[2], x[2] * y[2])
    ELSE NaN
RatMul(x, y) ==
    IF IsNumber(x) /\ IsNumber(y) THEN Ratio(x[1] * y[1], x[2] * y[2]) ELSE NaN
\* float division of non-negative numbers: 0/0 is nan, x/0 is inf
RatDiv(x, y) ==
    IF ~(IsNumber(x) /\ IsNumber(y)) THEN NaN
    ELSE IF y[1] = 0 THEN (IF x[1] = 0 THEN NaN ELSE Infinite)
    ELSE Ratio(x[1] * y[2], x[2] * y[1])

RECURSIVE RatSum(_)
RatSum(row) == IF Len(row) = 0 THEN <<0, 1>> ELSE RatAdd(Head(row), RatSum(Tail(row)))

\* self._similarity_tensor /= numpy.sum(self._similarity_tensor, axis=-1, keepdims=True)
ScaleRows(tensor) ==
    [r \in 1..Len(tensor) |->
        [i \in 1..Len(tensor[r]) |-> RatDiv(tensor[r][i], RatSum(tensor[r]))]]

KeepNaN(tensor) == tensor
\* self._similarity_tensor[numpy.isnan(self._similarity_tensor)] =
\*     1.0 / self._similarity_tensor.shape[-1]
ReplaceNaN(tensor) ==
    [r \in 1..Len(tensor) |->
        [i \in 1..Len(tensor[r]) |->
            IF tensor[r][i] = NaN THEN Ratio(1, Len(tensor[r])) ELSE tensor[r][i]]]

\* the similarity tensor activate caches, from what calculate.gaussian returned
Similarity(gaussian, scale) ==
    IF scale THEN ReplaceNaN(ScaleRows(gaussian)) ELSE gaussian

DotOnly(similarity, weights, bias) ==
    [r \in 1..Len(similarity) |->
        [j \in 1..Len(bias) |->
            RatSum([i \in 1..Len(weights) |->
                        RatMul(similarity[r][i], <<weights[i][j], 1>>)])]]
\* numpy.dot(self._similarity_tensor, self._weight_matrix) + self._bias_vec
Output(similarity, weights, bias) ==
    [r \in 1..Len(similarity) |->
        [j \in 1..Len(bias) |->
            RatAdd(RatSum([i \in 1..Len(weights) |->
                              RatMul(similarity[r][i], <<weights[i][j], 1>>)]),
                   <<bias[j], 1>>)]]

----------------------------------------------------------------------------
(* RBF._get_jacobian: the gradient of the error in the parameters.         *)
(* error_jac is dError/dOutput, one row per sample, in whole numbers.      *)

\* weight_jacobian = self._similarity_tensor.T.dot(error_jac)
WeightJacobian(similarity, error_jac) ==
    [i \in 1..Len(similarity[1]) |->
        [j \in 1..Len(error_jac[1]) |->
            RatSum([r \in 1..Len(similarity) |->
                        RatMul(similarity[r][i], <<error_jac[r][j], 1>>)])]]

\* bias_jacobian = numpy.sum(error_jac, axis=0)
BiasJacobian(error_jac) ==
    [j \in 1..Len(error_jac[1]) |->
        RatSum([r \in 1..Len(error_jac) |-> <<error_jac[r][j], 1>>])]

\* the two gradients flattened weights-first, unlike _flatten_weights
WeightsFirstVector(weight_jacobian, bias_jacobian) ==
    LET c == Len(weight_jacobian)
        o == Len(bias_jacobian)
    IN [k \in 1..(c * o + o) |->
            IF k <= c * o
            THEN weight_jacobian[((k - 1) \div o) + 1][((k - 1) % o) + 1]
            ELSE bias_jacobian[k - c * o]]

\* return error, _flatten_weights(weight_jacobian, bias_jacobian)
JacobianVector(weight_jacobian, bias_jacobian) ==
    FlattenWeights(weight_jacobian, bias_jacobian)

\* no _get_obj_jac has run in the current optimizer.next
NoTrace == [probed |-> None, activated |-> None, multiplied |-> None,
            error_jac |-> None, flat |-> None]

----------------------------------------------------------------------------
(* Inputs *)

DefaultIterations == 1000           \* iterations=1000
JacobianNormBreak == 10             \* jacobian_norm_break=1e-10, in units of 1e-11

ErrorValues == {Milli(1), Milli(2), Milli(3)}
Outputs == ErrorValues \cup {None}
BreakValues == {Milli(0), Milli(2)}
ThresholdValues == {Milli(0), Milli(1)}
MseValues == {Milli(1), Milli(3)}

\* ManySetOutputsModel([[1.0], [0.9], [0.8], [0.7], [1.0], [1.0], [1.0], [1.0], [1.0]])
WrapAround == <<Milli(1000), Milli(900), Milli(800), Milli(700), Milli(1000),
                Milli(1000), Milli(1000), Milli(1000), Milli(1000)>>
\* SetOutputModel(1.0), the wrap-around list, and a model stuck at 1e10
TestPlans == {<<Milli(1000)>>, WrapAround, <<Sentinel>>}
\* ManySetOutputsModel([[1.0], [0.99], [0.98], [0.97], [0.97], ...])
NoImprovement == <<Milli(1000), Milli(990), Milli(980), Milli(970), Milli(970),
                   Milli(970), Milli(970), Milli(970), Milli(970)>>
EnumeratedPlans == UNION {[1..n -> Outputs] : n \in 1..MaxPlanLen}

EnumeratedArgs ==
    [iterations : 1..MaxIterations, retries : 0..MaxRetries,
     error_break : BreakValues, distance : 1..MaxDistance,
     threshold : ThresholdValues]
\* the train calls of test_base.py: default iterations, retries and
\* error_break (0.002), error_stagnant_threshold=0.01, distance 5 or 4
TestArgs ==
    [iterations : {DefaultIterations}, retries : {0},
     error_break : {Milli(2)}, distance : {4, 5}, threshold : {Milli(10)}]

\* (2 * numpy.random.random(shape) - 1) * INITIAL_WEIGHTS_RANGE lies in [-0.25, 0.25)
InitialWeights == {-250, 249}
Shapes == {<<1, 1>>, <<2, 1>>}
\* the parameter vectors the optimizer probes and returns: all entries distinct
ParamScales == {-100, 1000}
ParamVectors(shp) ==
    {[k \in 1..(shp[2] + shp[1] * shp[2]) |-> v * k] : v \in ParamScales}
OptimizerErrors == {None, Milli(1), Milli(3)}
\* parameters assigned to a one-cluster, one-output model, flattened:
\* weight 0.5 with bias -0.5, and weight 1.0 with bias 2.0
TestParameters == {<<-500, 500>>, <<2000, 1000>>}
WideShapes == {<<1, 2>>, <<2, 2>>}
AssignedParameters(shp) ==
    {UnflattenWeights(v, shp) :
        v \in ParamVectors(shp) \cup (IF shp = <<1, 1>> THEN TestParameters ELSE {})}

\* what calculate.gaussian returns for the distances of the input to the
\* cluster centers: 0.0 (underflow, far from the center), 0.5, 1.0 (at it)
SimilarityValues == {<<0, 1>>, <<1, 2>>, <<1, 1>>}
SimilarityTensors(num_clusters) ==
    UNION {[1..n -> [1..num_clusters -> SimilarityValues]] : n \in 1..MaxSamples}

\* what calculate.gaussian returns for the batch of n samples trained on,
\* the same at every activation of it: 1 for the first cluster, 1/2 for
\* the second, ...
BatchGaussian(n, num_clusters) ==
    [r \in 1..n |-> [i \in 1..num_clusters |-> Ratio(1, i)]]
\* what error_func.derivative returns as dError/dOutput
ErrorJacobians(n, num_outputs) ==
    {[r \in 1..n |-> [j \in 1..num_outputs |-> v * j]] : v \in {-1, 2}}

\* the rows of the xor dataset, taken again from the first when more are asked
XorInput(i) == <<((i - 1) \div 2) % 2, (i - 1) % 2>>
XorTarget(i) == <<(((i - 1) \div 2) + (i - 1)) % 2>>
Dataset(n) == [input |-> [i \in 1..n |-> XorInput(i)],
               target |-> [i \in 1..n |-> XorTarget(i)]]
Datasets == {Dataset(n) : n \in 1..MaxRows}
\* the dataset [[0.0]], [[0.0]] of the train tests
SingleRow == [input |-> <<<<0>>>>, target |-> <<<<0>>>>]

Sizes == {None} \cup {<<k>> : k \in 0..MaxRows}
Iterative == [name |-> "select_iterative", size |-> None]
\* the selection functions handed to train: functools.partial with a size
TrainSelectFuncs ==
    {Iterative}
    \cup [name : {"select_sample", "select_random"}, size : {<<0>>, <<2>>}]
\* error_improve_iters=5
ImproveIters == {5}
IncrementErrors == {None, Milli(1), Milli(3)}
Jacobians == {None, <<0>>, <<JacobianNormBreak>>}

----------------------------------------------------------------------------
(* The model object after construction *)

InitStub ==
    /\ family = "stub"
    /\ \/ outputs \in EnumeratedPlans \cup TestPlans \cup {NoImprovement}
          /\ sets_converged = FALSE
       \/ outputs = <<None>> /\ sets_converged = TRUE
    /\ shape = <<0, 0>>
    /\ cluster_incrementally = FALSE
    /\ scale_by_similarity = FALSE
    /\ bias_vec = <<>>
    /\ weight_matrix = <<>>
    /\ input_matrix = SingleRow.input
    /\ target_matrix = SingleRow.target
    /\ increment_error = None

\* RBF.__init__
InitRBF ==
    /\ family = "rbf"
    /\ outputs = <<>>
    /\ sets_converged = FALSE
    /\ cluster_incrementally \in BOOLEAN
    /\ \/ /\ shape \in Shapes
          /\ scale_by_similarity = TRUE
          /\ weight_matrix \in [1..shape[1] -> [1..shape[2] -> InitialWeights]]
          /\ bias_vec \in [1..shape[2] -> InitialWeights]
       \/ /\ shape \in Shapes \cup WideShapes
          /\ scale_by_similarity \in BOOLEAN
          /\ \E p \in AssignedParameters(shape) :
                bias_vec = p[1] /\ weight_matrix = p[2]
    /\ input_matrix = SingleRow.input
    /\ target_matrix = SingleRow.target
    /\ increment_error = None

\* a subclass that implements only _train_increment (EmptyModel is one)
InitIncrement ==
    /\ family = "increment"
    /\ outputs = <<>>
    /\ sets_converged = FALSE
    /\ shape = <<0, 0>>
    /\ cluster_incrementally = FALSE
    /\ scale_by_similarity = FALSE
    /\ bias_vec = <<>>
    /\ weight_matrix = <<>>
    /\ \E d \in Datasets : input_matrix = d.input /\ target_matrix = d.target
    /\ increment_error \in IncrementErrors

\* no model object: the module-level functions and a dataset
InitNone ==
    /\ family = "none"
    /\ outputs = <<>>
    /\ sets_converged = FALSE
    /\ shape = <<0, 0>>
    /\ cluster_incrementally = FALSE
    /\ scale_by_similarity = FALSE
    /\ bias_vec = <<>>
    /\ weight_matrix = <<>>
    /\ \E d \in Datasets : input_matrix = d.input /\ target_matrix = d.target
    /\ increment_error = None

\* Model.__init__ and the state no call has touched yet
Init ==
    /\ InitStub \/ InitRBF \/ InitIncrement \/ InitNone
    /\ call = "none"
    /\ args = None
    /\ result = None
    /\ pattern_select_func = Iterative
    /\ post_pattern_callback = FALSE
    /\ error_improve_iters = None
    /\ hook_calls = <<>>
    /\ jacobian_trace = NoTrace
    /\ defined_errors = 0
    /\ selected_rows = <<>>
    /\ selected_patterns = <<>>
    /\ events = <<>>
    /\ was_converged = FALSE
    /\ pc = "idle"
    /\ exception = "none"
    /\ iterations = 0 /\ retries = 0 /\ error_break = None
    /\ error_stagnant_distance = 0 /\ error_stagnant_threshold = None
    /\ attempt = 0 /\ loop_index = 0
    /\ iteration = 0
    /\ error = None
    /\ error_history = <<>>
    /\ converged = FALSE
    /\ broke = "none"
    /\ steps = 0 /\ reset_calls = 0 /\ avg_mse_calls = 0
    /\ avg_mse_value = None
    /\ similarity_tensor = None
    /\ clustering = [trains |-> 0, steps |-> 0, resets |-> 0]
    /\ optimizer = [resets |-> 0, jacobian |-> None, start |-> None,
                    probed |-> None, returned |-> None]
    /\ evals = 0

----------------------------------------------------------------------------
(* Model.train *)

\* the train calls made on an RBF: one or two iterations, a window of one
RBFArgs ==
    {a \in EnumeratedArgs :
        a.iterations <= 2 /\ a.distance = 1 /\ a.threshold = Milli(0)}

ArgsFor(fam, list, custom) ==
    IF fam = "rbf" THEN RBFArgs
    ELSE IF list \in TestPlans \/ custom THEN EnumeratedArgs \cup TestArgs
    ELSE EnumeratedArgs

\* an RBF with parameters as the constructor draws them
AsConstructed ==
    /\ \A j \in 1..Len(bias_vec) : bias_vec[j] \in InitialWeights
    /\ \A i \in 1..Len(weight_matrix) : \A j \in 1..Len(weight_matrix[i]) :
            weight_matrix[i][j] \in InitialWeights
\* the train calls made on an RBF whose parameters were assigned: no retry
ShortArgs == {a \in RBFArgs : a.retries = 0 /\ a.error_break = Milli(2)}
\* the train calls made on a model of the increment family
IncrementArgs ==
    [iterations : 1..2, retries : {0}, error_break : {Milli(2)}, distance : {1},
     threshold : {Milli(0)}, select : TrainSelectFuncs, callback : BOOLEAN]

TrainArgs ==
    IF family = "increment" THEN IncrementArgs
    ELSE IF family = "rbf" /\ ~AsConstructed THEN ShortArgs
    ELSE ArgsFor(family, outputs, sets_converged)

\* train(), up to the first attempt: _reset_bookkeeping and the error history
TrainCall ==
    /\ pc = "idle"
    /\ family # "none"
    /\ \E a \in TrainArgs :
        /\ pattern_select_func' = IF family = "increment" THEN a.select ELSE Iterative
        /\ post_pattern_callback' = IF family = "increment" THEN a.callback ELSE FALSE
        /\ iterations' = a.iterations
        /\ retries' = a.retries
        /\ error_break' = a.error_break
        /\ error_stagnant_distance' = a.distance
        /\ error_stagnant_threshold' = a.threshold
        /\ error_history' = InitialHistory(a.distance)
    /\ error_improve_iters' = None
    /\ call' = "train"
    /\ iteration' = 0
    /\ attempt' = 0
    /\ loop_index' = 0
    /\ pc' = "select"
    /\ UNCHANGED <<defined_errors, hook_calls, jacobian_trace, config_vars, selection_vars, direct_vars, events, was_converged,
                   rbf_vars, exception, error, converged, broke,
                   steps, reset_calls, avg_mse_calls, avg_mse_value>>

\* train(..., error_improve_iters=k): train has no such parameter, so the
\* call raises TypeError (unexpected keyword argument) before its body runs
TrainCallImproveIters ==
    /\ pc = "idle"
    /\ family = "stub"
    /\ outputs \in {<<Milli(1000)>>, NoImprovement}
    /\ \E k \in ImproveIters : error_improve_iters' = <<k>>
    /\ call' = "train"
    /\ pc' = "raised"
    /\ exception' = "TypeError"
    /\ UNCHANGED <<defined_errors, hook_calls, jacobian_trace, config_vars, selection_vars, direct_vars, events, was_converged,
                   rbf_vars, iterations, retries, error_break,
                   error_stagnant_distance, error_stagnant_threshold,
                   pattern_select_func, post_pattern_callback, attempt, loop_index,
                   iteration, error, error_history, converged, broke, steps,
                   reset_calls, avg_mse_calls, avg_mse_value>>

\* for self.iteration in range(1, iterations+1): pattern_select_func(...)
IterationSelect ==
    /\ pc = "select"
    /\ loop_index < iterations
    /\ loop_index' = loop_index + 1
    /\ iteration' = loop_index + 1
    /\ IF SelectionRaises(pattern_select_func, input_matrix)
       THEN /\ pc' = "raised"
            /\ exception' = "ValueError"
            /\ hook_calls' = <<>>
            /\ UNCHANGED selection_vars
       ELSE /\ \E s \in Selections(pattern_select_func, input_matrix, target_matrix) :
                /\ selected_rows' = s.rows
                /\ selected_patterns' = s.patterns
                /\ hook_calls' = Called(<<>>, "pattern_select_func", s.patterns)
            /\ pc' = "pre_iteration"
            /\ UNCHANGED exception
    /\ UNCHANGED <<defined_errors, jacobian_trace, config_vars, direct_vars, events, was_converged,
                   train_vars, rbf_vars, call, attempt,
                   error, error_history, converged, broke, steps, reset_calls,
                   avg_mse_calls, avg_mse_value>>

\* self.pre_iteration(*selected_patterns): a no-op
PreIteration ==
    /\ pc = "pre_iteration"
    /\ hook_calls' = Called(hook_calls, "pre_iteration", selected_patterns)
    /\ pc' = "train_step"
    /\ UNCHANGED <<defined_errors, jacobian_trace, config_vars, selection_vars, direct_vars, events, was_converged,
                   train_vars, rbf_vars, call, exception, attempt,
                   loop_index, iteration, error, error_history, converged, broke,
                   steps, reset_calls, avg_mse_calls, avg_mse_value>>

\* error = self.train_step(*selected_patterns), train_step overridden by the stub
StubTrainStep ==
    /\ pc = "train_step"
    /\ family = "stub"
    /\ hook_calls' = Called(hook_calls, "train_step", selected_patterns)
    /\ steps' = steps + 1
    /\ error' = OutputAt(outputs, steps + 1)
    /\ defined_errors' = defined_errors
                            + (IF OutputAt(outputs, steps + 1) # None THEN 1 ELSE 0)
    /\ converged' = (sets_converged \/ converged)
    /\ was_converged' = (was_converged \/ converged)
    /\ pc' = "post_iteration"
    /\ UNCHANGED <<jacobian_trace, config_vars, selection_vars, direct_vars, events,
                   train_vars, rbf_vars, call, exception, attempt,
                   loop_index, iteration, error_history, broke, reset_calls,
                   avg_mse_calls, avg_mse_value>>

\* error = self.train_step(*selected_patterns), train_step as Model defines
\* it: every pattern of the batch in row order.  An empty batch leaves
\* error = 0.0, and 0.0 / 0 raises ZeroDivisionError.
DefaultTrainStep ==
    /\ pc = "train_step"
    /\ family = "increment"
    /\ hook_calls' = Called(hook_calls, "train_step", selected_patterns)
    /\ steps' = steps + 1
    /\ events' = events \o TrainStepEvents(selected_patterns[1], selected_patterns[2],
                                           post_pattern_callback)
    /\ IF Len(selected_patterns[1]) = 0
       THEN /\ pc' = "raised"
            /\ exception' = "ZeroDivisionError"
            /\ UNCHANGED <<error, defined_errors>>
       ELSE /\ pc' = "post_iteration"
            /\ defined_errors' = defined_errors
                                    + (IF increment_error # None THEN 1 ELSE 0)
            /\ error' = TrainStepError([i \in 1..Len(selected_patterns[1]) |->
                                            increment_error])
            /\ UNCHANGED exception
    /\ UNCHANGED <<jacobian_trace, config_vars, selection_vars, direct_vars, was_converged,
                   train_vars, rbf_vars, call, attempt,
                   loop_index, iteration, error_history, converged, broke, reset_calls,
                   avg_mse_calls, avg_mse_value>>

\* self.post_iteration(*selected_patterns): a no-op
PostIteration ==
    /\ pc = "post_iteration"
    /\ hook_calls' = Called(hook_calls, "post_iteration", selected_patterns)
    /\ pc' = "check"
    /\ UNCHANGED <<defined_errors, jacobian_trace, config_vars, selection_vars, direct_vars, events, was_converged,
                   train_vars, rbf_vars, call, exception, attempt,
                   loop_index, iteration, error, error_history, converged, broke,
                   steps, reset_calls, avg_mse_calls, avg_mse_value>>

\* the breaks of the inner loop, the push into the history, and the loop's end
CheckBreak ==
    /\ pc = "check"
    /\ IF error # None /\ BreakEarly(error, error_break)
       THEN /\ broke' = "error_break"
            /\ pc' = "attempt_end"
            /\ UNCHANGED error_history
       ELSE IF error # None
               /\ AllClose(error_history, error, error_stagnant_threshold)
       THEN /\ broke' = "stagnant"
            /\ pc' = "attempt_end"
            /\ UNCHANGED error_history
       ELSE /\ error_history' = IF error # None
                                THEN PushHistory(error_history, error)
                                ELSE error_history
            /\ IF loop_index < iterations
               THEN pc' = "select" /\ UNCHANGED broke
               ELSE pc' = "attempt_end" /\ broke' = "exhausted"
    /\ UNCHANGED <<defined_errors, hook_calls, jacobian_trace, config_vars, selection_vars, direct_vars, events, was_converged,
                   train_vars, rbf_vars, call, exception, attempt,
                   loop_index, iteration, error, converged, steps, reset_calls,
                   avg_mse_calls, avg_mse_value>>

\* the end of an attempt: stop, or self.reset() and the next attempt.
\* avg_mse calls activate on every row, which for an RBF caches the
\* similarity of the last row.  The RBF's reset raises (see RBFReset).
AttemptEnd ==
    /\ pc = "attempt_end"
    /\ \E mse \in MseValues :
        LET evaluated == EvaluatesAvgMse(attempt, retries, error)
        IN /\ avg_mse_calls' = avg_mse_calls + (IF evaluated THEN 1 ELSE 0)
           /\ avg_mse_value' = IF evaluated THEN mse ELSE None
           /\ similarity_tensor' = IF evaluated /\ family = "rbf"
                                   THEN <<"row">> ELSE similarity_tensor
           /\ IF StopAttempts(attempt, retries, error, mse, error_break)
              THEN /\ pc' = "done"
                   /\ UNCHANGED <<attempt, loop_index, broke, reset_calls, exception>>
              ELSE /\ reset_calls' = reset_calls + 1
                   /\ IF family = "rbf"
                      THEN /\ pc' = "raised"
                           /\ exception' = "NotImplementedError"
                           /\ UNCHANGED <<attempt, loop_index, broke>>
                      ELSE /\ attempt' = attempt + 1
                           /\ loop_index' = 0
                           /\ broke' = "none"
                           /\ pc' = "select"
                           /\ UNCHANGED exception
    /\ UNCHANGED <<defined_errors, hook_calls, jacobian_trace, config_vars, selection_vars, direct_vars, events, was_converged,
                   train_vars, call, iteration, error, error_history,
                   converged, steps, bias_vec, weight_matrix, clustering,
                   optimizer, evals>>

----------------------------------------------------------------------------
(* RBF *)

\* RBF.train_step up to the call of optimizer.next: the clustering step
\* when cluster_incrementally, then the Problem and the flattened parameters
RBFTrainStep ==
    /\ pc = "train_step"
    /\ family = "rbf"
    /\ hook_calls' = Called(hook_calls, "train_step", selected_patterns)
    /\ steps' = steps + 1
    /\ clustering' = IF cluster_incrementally
                     THEN [clustering EXCEPT !.steps = @ + 1]
                     ELSE clustering
    /\ optimizer' = [optimizer EXCEPT
                        !.start = FlattenWeights(weight_matrix, bias_vec),
                        !.probed = None, !.returned = None]
    /\ evals' = 0
    /\ pc' = "optimizer"
    /\ UNCHANGED <<defined_errors, jacobian_trace, config_vars, selection_vars, direct_vars, events, was_converged,
                   train_vars, call, exception, attempt, loop_index,
                   iteration, error, error_history, converged, broke, reset_calls,
                   avg_mse_calls, avg_mse_value, bias_vec, weight_matrix,
                   similarity_tensor>>

\* the optimizer calls obj_func(xk): _get_obj installs xk and activates
OptimizerEvalObj ==
    /\ pc = "optimizer"
    /\ evals < MaxEvals
    /\ \E xk \in ParamVectors(shape) :
        /\ bias_vec' = UnflattenWeights(xk, shape)[1]
        /\ weight_matrix' = UnflattenWeights(xk, shape)[2]
        /\ optimizer' = [optimizer EXCEPT !.probed = xk]
    /\ similarity_tensor' =
            <<"batch", Similarity(BatchGaussian(Len(selected_patterns[1]), shape[1]),
                                  scale_by_similarity)>>
    /\ evals' = evals + 1
    /\ UNCHANGED <<defined_errors, hook_calls, jacobian_trace, config_vars, selection_vars, direct_vars, events, was_converged,
                   train_vars, call, pc, exception, attempt, loop_index,
                   iteration, error, error_history, converged, broke, steps,
                   reset_calls, avg_mse_calls, avg_mse_value, clustering>>

\* the optimizer calls obj_jac_func(xk): _get_obj_jac installs xk, and
\* _get_jacobian activates and derives the gradient from the cached similarity
OptimizerEvalObjJac ==
    /\ pc = "optimizer"
    /\ evals < MaxEvals
    /\ \E xk \in ParamVectors(shape),
          error_jac \in ErrorJacobians(Len(selected_patterns[1]), shape[2]) :
        LET installed == UnflattenWeights(xk, shape)
            gaussian == BatchGaussian(Len(selected_patterns[1]), shape[1])
            similarity == Similarity(gaussian, scale_by_similarity)
            cached == <<"batch", similarity>>
        IN /\ bias_vec' = installed[1]
           /\ weight_matrix' = installed[2]
           /\ optimizer' = [optimizer EXCEPT !.probed = xk]
           /\ similarity_tensor' = cached
           /\ jacobian_trace' =
                [probed |-> xk,
                 activated |-> [batch |-> selected_patterns[1],
                                parameters |-> installed,
                                similarity |-> similarity],
                 multiplied |-> cached[2],
                 error_jac |-> error_jac,
                 flat |-> JacobianVector(WeightJacobian(cached[2], error_jac),
                                         BiasJacobian(error_jac))]
    /\ evals' = evals + 1
    /\ UNCHANGED <<defined_errors, hook_calls, config_vars, selection_vars, direct_vars, events, was_converged,
                   train_vars, call, pc, exception, attempt, loop_index,
                   iteration, error, error_history, converged, broke, steps,
                   reset_calls, avg_mse_calls, avg_mse_value, clustering>>

\* optimizer.next returns (error, flat_weights) and leaves its jacobian
\* field; train_step installs the result and sets self.converged
OptimizerReturn ==
    /\ pc = "optimizer"
    /\ \E err \in OptimizerErrors, flat \in ParamVectors(shape), jac \in Jacobians :
        /\ optimizer' = [optimizer EXCEPT !.jacobian = jac,
                                          !.returned = <<err, flat>>]
        /\ bias_vec' = InstallParameters(flat, bias_vec, weight_matrix, shape)[1]
        /\ weight_matrix' = InstallParameters(flat, bias_vec, weight_matrix, shape)[2]
        /\ converged' = JacobianBelowBreak(jac, JacobianNormBreak)
        /\ error' = err
        /\ defined_errors' = defined_errors + (IF err # None THEN 1 ELSE 0)
    /\ was_converged' = (was_converged \/ converged)
    /\ jacobian_trace' = NoTrace
    /\ pc' = "post_iteration"
    /\ UNCHANGED <<hook_calls, config_vars, selection_vars, direct_vars, events,
                   train_vars, call, exception, attempt, loop_index,
                   iteration, error_history, broke, steps, reset_calls,
                   avg_mse_calls, avg_mse_value, similarity_tensor, clustering,
                   evals>>

\* RBF.activate called on the model: the similarity is cached, the output returned
RBFActivate ==
    /\ pc = "idle"
    /\ family = "rbf"
    /\ \E gaussian \in SimilarityTensors(shape[1]) :
        LET similarity == Similarity(gaussian, scale_by_similarity)
        IN /\ args' = [gaussian |-> gaussian]
           /\ similarity_tensor' = <<"input", similarity>>
           /\ result' = Output(similarity, weight_matrix, bias_vec)
    /\ call' = "activate"
    /\ pc' = "done"
    /\ UNCHANGED <<defined_errors, hook_calls, jacobian_trace, config_vars, selection_vars, events, was_converged, train_vars,
                   bias_vec, weight_matrix, clustering, optimizer, evals,
                   exception, attempt, loop_index, iteration, error, error_history,
                   converged, broke, steps, reset_calls, avg_mse_calls,
                   avg_mse_value>>

\* RBF.reset called on the model: super(RBF, self).reset() is Model.reset,
\* which raises NotImplementedError before any field is touched
RBFReset ==
    /\ pc = "idle"
    /\ family = "rbf"
    /\ call' = "reset"
    /\ reset_calls' = reset_calls + 1
    /\ pc' = "raised"
    /\ exception' = "NotImplementedError"
    /\ UNCHANGED <<defined_errors, hook_calls, jacobian_trace, config_vars, selection_vars, direct_vars, events, was_converged,
                   train_vars, rbf_vars, attempt, loop_index,
                   iteration, error, error_history, converged, broke, steps,
                   avg_mse_calls, avg_mse_value>>

----------------------------------------------------------------------------
(* Serialization *)

\* the classes unserialize is called on, and those whose instances a
\* serialized form can stand for
ModelClasses == {"Model", "RBF", "SetOutputModel"}

\* Model.serialize, which RBF inherits: raise NotImplementedError()
ModelSerialize ==
    /\ pc = "idle"
    /\ family = "rbf"
    /\ call' = "serialize"
    /\ pc' = "raised"
    /\ exception' = "NotImplementedError"
    /\ UNCHANGED <<defined_errors, hook_calls, jacobian_trace, config_vars, selection_vars, direct_vars, events, was_converged,
                   train_vars, rbf_vars, attempt, loop_index, iteration, error,
                   error_history, converged, broke, steps, reset_calls,
                   avg_mse_calls, avg_mse_value>>

\* cls.unserialize(serialized_model), a classmethod no class of src
\* overrides: raise NotImplementedError(), whatever the argument
ModelUnserialize ==
    /\ pc = "idle"
    /\ family = "none"
    /\ \E cls \in {"Model", "RBF"}, by \in ModelClasses :
        args' = [cls |-> cls, serialized_by |-> by]
    /\ call' = "unserialize"
    /\ pc' = "raised"
    /\ exception' = "NotImplementedError"
    /\ UNCHANGED <<defined_errors, hook_calls, jacobian_trace, config_vars, selection_vars, result, events, was_converged,
                   train_vars, rbf_vars, attempt, loop_index, iteration, error,
                   error_history, converged, broke, steps, reset_calls,
                   avg_mse_calls, avg_mse_value>>

----------------------------------------------------------------------------
(* The selection functions called on a dataset *)

\* select_iterative(input_matrix, target_matrix)
CallSelectIterative ==
    /\ pc = "idle"
    /\ family = "none"
    /\ \E s \in SelectIterative(input_matrix, target_matrix) :
        /\ selected_rows' = s.rows
        /\ result' = s.patterns
    /\ args' = [size |-> None]
    /\ call' = "select_iterative"
    /\ pc' = "done"
    /\ UNCHANGED exception
    /\ UNCHANGED <<defined_errors, hook_calls, jacobian_trace, config_vars, train_vars, rbf_vars, selected_patterns, events,
                   was_converged, attempt, loop_index, iteration, error,
                   error_history, converged, broke, steps, reset_calls,
                   avg_mse_calls, avg_mse_value>>

\* select_sample(input_matrix, target_matrix, size)
CallSelectSample ==
    /\ pc = "idle"
    /\ family = "none"
    /\ \E size \in Sizes :
        /\ args' = [size |-> size]
        /\ IF SampleTooLarge(input_matrix, size)
           THEN /\ pc' = "raised"
                /\ exception' = "ValueError"
                /\ UNCHANGED <<selected_rows, result>>
           ELSE /\ \E s \in SelectSample(input_matrix, target_matrix, size) :
                    /\ selected_rows' = s.rows
                    /\ result' = s.patterns
                /\ pc' = "done"
                /\ UNCHANGED exception
    /\ call' = "select_sample"
    /\ UNCHANGED <<defined_errors, hook_calls, jacobian_trace, config_vars, train_vars, rbf_vars, selected_patterns, events,
                   was_converged, attempt, loop_index, iteration, error,
                   error_history, converged, broke, steps, reset_calls,
                   avg_mse_calls, avg_mse_value>>

\* select_random(input_matrix, target_matrix, size)
CallSelectRandom ==
    /\ pc = "idle"
    /\ family = "none"
    /\ \E size \in Sizes :
        /\ args' = [size |-> size]
        /\ \E s \in SelectRandom(input_matrix, target_matrix, size) :
            /\ selected_rows' = s.rows
            /\ result' = s.patterns
    /\ call' = "select_random"
    /\ pc' = "done"
    /\ UNCHANGED exception
    /\ UNCHANGED <<defined_errors, hook_calls, jacobian_trace, config_vars, train_vars, rbf_vars, selected_patterns, events,
                   was_converged, attempt, loop_index, iteration, error,
                   error_history, converged, broke, steps, reset_calls,
                   avg_mse_calls, avg_mse_value>>

----------------------------------------------------------------------------
Next ==
    \/ TrainCall
    \/ TrainCallImproveIters
    \/ IterationSelect
    \/ PreIteration
    \/ StubTrainStep
    \/ DefaultTrainStep
    \/ RBFTrainStep
    \/ OptimizerEvalObj
    \/ OptimizerEvalObjJac
    \/ OptimizerReturn
    \/ PostIteration
    \/ CheckBreak
    \/ AttemptEnd
    \/ RBFReset
    \/ RBFActivate
    \/ CallSelectIterative
    \/ CallSelectSample
    \/ CallSelectRandom
    \/ ModelSerialize
    \/ ModelUnserialize

Spec == Init /\ [][Next]_vars

----------------------------------------------------------------------------
(* Claims *)

IsConstant(list, e) == \A k \in 1..Len(list) : list[k] = e
AllDefined(list) == \A k \in 1..Len(list) : list[k] # None
FarFromSentinel(e, threshold) == Less(threshold, AbsDiff(Sentinel, e))
Within(a, b, threshold) == ~Less(threshold, AbsDiff(a, b))

\* C1: with retries=0, a train_step that returns the same defined error e
\* at every iteration, e not below error_break and farther than the
\* threshold from the 1e10 sentinel, and iterations > error_stagnant_distance,
\* train stops by stagnation with self.iteration = error_stagnant_distance + 1.
C1_StagnationBreak ==
    (/\ call = "train" /\ pc = "done" /\ family = "stub" /\ retries = 0
     /\ outputs[1] # None /\ IsConstant(outputs, outputs[1])
     /\ ~Less(outputs[1], error_break)
     /\ FarFromSentinel(outputs[1], error_stagnant_threshold)
     /\ iterations > error_stagnant_distance)
    => /\ iteration = error_stagnant_distance + 1
       /\ broke = "stagnant"

\* test_break_on_stagnation_completely_stagnant: distance 5 stops at iteration 6
C1_Witness ==
    /\ call = "train" /\ pc = "done" /\ family = "stub" /\ retries = 0
    /\ outputs = <<Milli(1000)>>
    /\ error_stagnant_distance = 5
    /\ error_stagnant_threshold = Milli(10)
    /\ iteration = 6
    /\ broke = "stagnant"

\* the wrap-around scenario of C2: distance 4, threshold 0.01, no error
\* below error_break, at least 9 iterations allowed
WrapAroundScenario ==
    /\ call = "train" /\ family = "stub" /\ retries = 0
    /\ outputs = WrapAround
    /\ error_stagnant_distance = 4
    /\ error_stagnant_threshold = Milli(10)
    /\ LessEq(error_break, Milli(700))
    /\ iterations >= 9

\* the errors of the error_stagnant_distance iterations before the current
\* one are all within the threshold of the current error (retries=0, stub)
PreviousErrorsClose ==
    /\ iteration > error_stagnant_distance
    /\ \A j \in 1..error_stagnant_distance :
         Within(OutputAt(outputs, iteration - j), OutputAt(outputs, iteration),
                error_stagnant_threshold)

\* C2 as stated: with retries=0 and a defined error at every step, the
\* stagnation break fires at iteration i only when i > error_stagnant_distance
\* and the errors of the previous error_stagnant_distance iterations are all
\* within the threshold of the error at i; the wrap-around scenario stops at
\* iteration 9.
C2_StagnationOnlyOnPlateau_Original ==
    /\ (/\ call = "train" /\ family = "stub" /\ retries = 0
        /\ AllDefined(outputs) /\ broke = "stagnant")
       => PreviousErrorsClose
    /\ (WrapAroundScenario /\ pc = "done")
       => (iteration = 9 /\ broke = "stagnant")

\* C2 (amended): the same, for a break at an error that is farther than the
\* threshold from the 1e10 sentinel the window is seeded with.
C2_StagnationOnlyOnPlateau ==
    /\ (/\ call = "train" /\ family = "stub" /\ retries = 0
        /\ AllDefined(outputs) /\ broke = "stagnant"
        /\ FarFromSentinel(OutputAt(outputs, iteration), error_stagnant_threshold))
       => PreviousErrorsClose
    /\ (WrapAroundScenario /\ pc = "done")
       => (iteration = 9 /\ broke = "stagnant")

\* test_break_on_stagnation_dont_break_if_wrapped_around has stopped
C2_Witness ==
    /\ WrapAroundScenario /\ pc = "done"
    /\ iteration = 9
    /\ broke = "stagnant"
    /\ PreviousErrorsClose

\* C3: when train_step sets self.converged = True (and returns no error),
\* train stops after exactly one iteration: self.iteration = 1 on return.
C3_ConvergedStopsAfterOne ==
    (call = "train" /\ pc = "done" /\ sets_converged)
    => (converged /\ iteration = 1)

\* C4: at the end of each attempt training ends iff attempt has reached
\* retries or the last error is defined and avg_mse <= error_break;
\* otherwise reset() is called exactly once and the next attempt starts;
\* attempts never exceed retries+1 and reset calls never exceed retries.
C4_RetryPolicy ==
    /\ [][pc = "attempt_end" =>
            /\ (pc' = "done") <=>
                  \/ attempt >= retries
                  \/ /\ error # None
                     /\ avg_mse_value' # None
                     /\ LessEq(avg_mse_value', error_break)
            /\ (pc' # "done") =>
                  /\ reset_calls' = reset_calls + 1
                  /\ attempt' = attempt + 1
                  /\ loop_index' = 0
                  /\ pc' = "select"]_vars
    /\ [](call = "train" => (attempt <= retries /\ reset_calls <= retries))

\* C5: every attempt starts with error_stagnant_distance sentinels in the
\* error history, so no attempt breaks on stagnation (at an error away from
\* the sentinel) before its iteration error_stagnant_distance + 1.
C5_FreshHistoryPerAttempt ==
    /\ (call = "train" /\ pc = "select" /\ loop_index = 0)
       => error_history = [k \in 1..error_stagnant_distance |-> Sentinel]
    /\ (/\ call = "train" /\ broke = "stagnant" /\ error # None
        /\ FarFromSentinel(error, error_stagnant_threshold))
       => iteration >= error_stagnant_distance + 1

\* an error that is defined and strictly below error_break
BelowBreak(e) == e # None /\ Less(e, error_break)

\* C6: the inner loop ends at the first iteration whose defined error is
\* strictly below error_break (no iteration follows one, and in the first
\* attempt none precedes the breaking one); an error equal to error_break
\* does not break; the breaking error is not pushed into the history.
C6_ErrorBreak ==
    /\ [](call = "train" =>
            /\ (\/ pc = "select" /\ loop_index >= 1
                \/ pc \in {"pre_iteration", "train_step", "optimizer"}
                   /\ loop_index >= 2) => ~BelowBreak(error)
            /\ (broke = "error_break") => BelowBreak(error)
            /\ (family = "stub" /\ attempt = 0) =>
                  \A k \in 1..(steps - 1) : ~BelowBreak(OutputAt(outputs, k)))
    /\ [][(pc = "check" /\ BelowBreak(error)) =>
            /\ pc' = "attempt_end"
            /\ broke' = "error_break"
            /\ error_history' = error_history]_vars
    /\ [][(pc = "check" /\ error = error_break) => broke' # "error_break"]_vars

\* an error equal to error_break was pushed, a later one below it broke the loop
C6_Witness ==
    /\ call = "train" /\ pc = "attempt_end"
    /\ broke = "error_break"
    /\ iteration >= 2
    /\ BelowBreak(error)
    /\ \E k \in 1..Len(error_history) : error_history[k] = error_break

\* C7: train makes at most (retries+1) * iterations train_step calls and
\* never leaves by an exception.
C7_TrainReturnsNormally ==
    call = "train" =>
        /\ steps <= (retries + 1) * iterations
        /\ pc # "raised"
        /\ exception = "none"

\* C8: an RBF with cluster_incrementally=False trained through train() has
\* its clustering sub-model trained exactly once before the first supervised
\* train_step, and no clustering train_step during the supervised steps.
C8_ClusteringPretrained ==
    (call = "train" /\ family = "rbf" /\ ~cluster_incrementally /\ steps >= 1)
    => (clustering.trains = 1 /\ clustering.steps = 0)

\* C9: RBF.reset completes normally, with the clustering sub-model and the
\* optimizer reset, weights and bias of unchanged shape and within
\* [-0.25, 0.25], and the cached similarity tensor cleared.
C9_ResetCompletes ==
    (call = "reset" /\ pc # "idle") =>
        /\ pc = "done" /\ exception = "none"
        /\ clustering.resets = 1
        /\ optimizer.resets = 1
        /\ Len(weight_matrix) = shape[1] /\ Len(bias_vec) = shape[2]
        /\ \A i \in 1..shape[1] : \A j \in 1..shape[2] :
              weight_matrix[i][j] >= -250 /\ weight_matrix[i][j] <= 250
        /\ \A j \in 1..shape[2] : bias_vec[j] >= -250 /\ bias_vec[j] <= 250
        /\ similarity_tensor = None

\* C10: when RBF.train_step returns, bias is the first num_outputs entries
\* of the vector optimizer.next returned and the weights are the rest in
\* row-major order, whatever vectors the optimizer probed, and the value
\* returned is the error optimizer.next reported.
C10_TrainStepInstallsResult ==
    (family = "rbf" /\ pc = "post_iteration") =>
        LET flat == optimizer.returned[2]
            c == shape[1]
            o == shape[2]
        IN /\ Len(bias_vec) = o
           /\ \A j \in 1..o : bias_vec[j] = flat[j]
           /\ Len(weight_matrix) = c
           /\ \A i \in 1..c : \A j \in 1..o :
                 weight_matrix[i][j] = flat[o + (i - 1) * o + j]
           /\ error = optimizer.returned[1]

\* train_step has returned after the optimizer probed another vector
C10_Witness ==
    /\ family = "rbf" /\ pc = "post_iteration"
    /\ shape = <<2, 1>>
    /\ optimizer.probed # None
    /\ optimizer.probed # optimizer.returned[2]
    /\ <<bias_vec, weight_matrix>> = UnflattenWeights(optimizer.returned[2], shape)

----------------------------------------------------------------------------
\* C11: after every RBF.train_step, converged is true exactly when the
\* optimizer's jacobian field is not None and its norm is strictly below
\* jacobian_norm_break; the flag is recomputed by every step, whatever it
\* was before, so a later step can set it back to false.
C11_ConvergedFollowsJacobian ==
    (family = "rbf" /\ call = "train" /\ pc = "post_iteration") =>
        (converged <=> (/\ optimizer.jacobian # None
                        /\ optimizer.jacobian[1] < JacobianNormBreak))

\* a second step that finds the norm not below the break, after a step
\* that had set converged
C11_Witness ==
    /\ family = "rbf" /\ pc = "post_iteration"
    /\ steps = 2
    /\ was_converged
    /\ ~converged
    /\ optimizer.jacobian = <<JacobianNormBreak>>

----------------------------------------------------------------------------
\* C12: for a weight matrix W of shape (c, o) and a bias vector b of length
\* o, the flat vector _flatten_weights(W, b) has length o + c*o, holds the
\* bias entries first and then W row by row, and _unflatten_weights of it
\* with shape (c, o) is (b, W) again.  train_step flattens the model's
\* parameters into the vector handed to the optimizer; until the optimizer
\* probes, the model still holds the W and b that were flattened.
C12_FlattenRoundTrip ==
    (family = "rbf" /\ pc = "optimizer" /\ evals = 0) =>
        LET flat == optimizer.start
            c == shape[1]
            o == shape[2]
        IN /\ Len(flat) = o + c * o
           /\ \A j \in 1..o : flat[j] = bias_vec[j]
           /\ \A i \in 1..c : \A j \in 1..o :
                 flat[o + (i - 1) * o + j] = weight_matrix[i][j]
           /\ UnflattenWeights(flat, shape) = <<bias_vec, weight_matrix>>

\* two clusters and two outputs, with entries that tell a row-major from a
\* column-major layout and the bias from the weights
C12_Witness ==
    /\ family = "rbf" /\ pc = "optimizer" /\ evals = 0
    /\ shape = <<2, 2>>
    /\ weight_matrix[1][2] # weight_matrix[2][1]
    /\ bias_vec[1] # weight_matrix[1][1]
    /\ optimizer.start = FlattenWeights(weight_matrix, bias_vec)

----------------------------------------------------------------------------
IsZeroRow(row) == \A i \in 1..Len(row) : row[i] = <<0, 1>>

\* C13: in RBF.activate with scale_by_similarity enabled, a sample whose
\* similarity to every cluster is exactly zero gets the uniform row, 1 /
\* num_clusters in every position, and no entry is ever NaN; a sample with
\* a non-zero similarity sum gets its row divided by that sum, so the row
\* sums to 1.
C13_ZeroSimilarityUniform ==
    (call = "activate" /\ pc = "done" /\ scale_by_similarity) =>
        \A r \in 1..Len(args.gaussian) :
            LET raw == args.gaussian[r]
                row == similarity_tensor[2][r]
            IN /\ Len(row) = shape[1]
               /\ \A i \in 1..Len(row) : row[i] # NaN
               /\ IF IsZeroRow(raw)
                  THEN \A i \in 1..Len(row) : row[i] = Ratio(1, shape[1])
                  ELSE /\ \A i \in 1..Len(row) :
                            RatMul(row[i], RatSum(raw)) = raw[i]
                       /\ RatSum(row) = <<1, 1>>

\* two clusters, one sample similar to none of them and one similar to both
C13_Witness ==
    /\ call = "activate" /\ pc = "done" /\ scale_by_similarity
    /\ shape[1] = 2
    /\ args.gaussian = <<(<<(<<0, 1>>), (<<0, 1>>)>>), (<<(<<1, 2>>), (<<1, 1>>)>>)>>
    /\ similarity_tensor[2] = <<(<<(<<1, 2>>), (<<1, 2>>)>>), (<<(<<1, 3>>), (<<2, 3>>)>>)>>

----------------------------------------------------------------------------
RECURSIVE Product(_)
Product(ints) == IF Len(ints) = 0 THEN 1 ELSE Head(ints) * Product(Tail(ints))
RECURSIVE Sum(_)
Sum(ints) == IF Len(ints) = 0 THEN 0 ELSE Head(ints) + Sum(Tail(ints))

\* C14: RBF.activate returns similarity . weight_matrix + bias_vec for
\* every sample and output (stated over the common denominator d of the
\* sample's similarities); with one cluster, one output and a similarity of
\* 1, weight 0.5 and bias -0.5 give exactly 0.0, weight 1.0 and bias 2.0
\* give exactly 3.0.
C14_ActivateOutput ==
    (call = "activate" /\ pc = "done") =>
        \A r \in 1..Len(result) : \A j \in 1..shape[2] :
            LET row == similarity_tensor[2][r]
                d == Product([i \in 1..Len(row) |-> row[i][2]])
                dot == Sum([i \in 1..Len(row) |->
                              row[i][1] * (d \div row[i][2]) * weight_matrix[i][j]])
                out == result[r][j]
            IN /\ out[2] > 0
               /\ out[1] * d = out[2] * (dot + bias_vec[j] * d)
               /\ (shape = <<1, 1>> /\ row[1] = <<1, 1>>) =>
                    /\ (weight_matrix[1][1] = 500 /\ bias_vec[1] = -500)
                            => out = <<0, 1>>
                    /\ (weight_matrix[1][1] = 1000 /\ bias_vec[1] = 2000)
                            => out = <<3000, 1>>

\* the first case: weight 0.5, bias -0.5, similarity 1
C14_Witness ==
    /\ call = "activate" /\ pc = "done"
    /\ shape = <<1, 1>>
    /\ weight_matrix = <<(<<500>>)>> /\ bias_vec = <<-500>>
    /\ similarity_tensor[2][1] = <<(<<1, 1>>)>>
    /\ result[1] = <<(<<0, 1>>)>>

----------------------------------------------------------------------------
\* the size a selection call asked for: its size argument, or all rows
AskedSize == IF args.size = None THEN Len(input_matrix) ELSE args.size[1]
RowAt(matrix, index) == matrix[index + 1]
InRange(index) == index \in 0..(Len(input_matrix) - 1)

C17_SameIndexSequence ==
    /\ (call \in {"select_iterative", "select_sample", "select_random"}
            /\ pc = "done") =>
          /\ Len(result[1]) = Len(selected_rows)
          /\ Len(result[2]) = Len(selected_rows)
          /\ \A i \in 1..Len(selected_rows) :
                /\ result[1][i] = RowAt(input_matrix, selected_rows[i])
                /\ result[2][i] = RowAt(target_matrix, selected_rows[i])
    /\ (call = "train" /\ pc = "pre_iteration") =>
          /\ Len(selected_patterns[1]) = Len(selected_rows)
          /\ Len(selected_patterns[2]) = Len(selected_rows)
          /\ \A i \in 1..Len(selected_rows) :
                /\ selected_patterns[1][i] = RowAt(input_matrix, selected_rows[i])
                /\ selected_patterns[2][i] = RowAt(target_matrix, selected_rows[i])

\* rows with different targets, returned out of order
C17_Witness ==
    /\ call = "select_random" /\ pc = "done"
    /\ selected_rows = <<3, 1>>
    /\ result = <<(<<XorInput(4), XorInput(2)>>), (<<XorTarget(4), XorTarget(2)>>)>>
    /\ XorTarget(4) # XorTarget(2)

----------------------------------------------------------------------------
IsCallback(event) == event.kind = "callback"
\* the (input_vec, target_vec) arguments of the callback invocations, in order
CallbackArguments ==
    LET calls == SelectSeq(events, IsCallback)
    IN [k \in 1..Len(calls) |-> <<calls[k].input, calls[k].target>>]

\* C18: the train_step Model defines (a model implementing only
\* _train_increment) invokes the post-pattern callback exactly once per
\* sample of the selected batch, in row order, right after that sample's
\* _train_increment and with that sample's input and target row; after a
\* train with iterations=1 and select_iterative the callback arguments are
\* the dataset rows in order.
C18_CallbackPerSample ==
    /\ [][(pc = "train_step" /\ family = "increment" /\ post_pattern_callback) =>
            LET inputs == selected_patterns[1]
                targets == selected_patterns[2]
                before == Len(events)
            IN /\ Len(events') = before + 2 * Len(inputs)
               /\ SubSeq(events', 1, before) = events
               /\ \A i \in 1..Len(inputs) :
                     /\ events'[before + 2 * i - 1] =
                            [kind |-> "_train_increment", input |-> inputs[i],
                             target |-> targets[i]]
                     /\ events'[before + 2 * i] =
                            [kind |-> "callback", input |-> inputs[i],
                             target |-> targets[i]]]_vars
    /\ []((/\ family = "increment" /\ call = "train" /\ pc = "done"
            /\ iterations = 1 /\ pattern_select_func = Iterative
            /\ post_pattern_callback) =>
                CallbackArguments =
                    [i \in 1..Len(input_matrix) |->
                        <<input_matrix[i], target_matrix[i]>>])

\* the four rows of the xor dataset, trained on once with a callback
C18_Witness ==
    /\ family = "increment" /\ call = "train" /\ pc = "done"
    /\ iterations = 1 /\ pattern_select_func = Iterative
    /\ post_pattern_callback
    /\ Len(input_matrix) = 4
    /\ Len(events) = 8
    /\ events[8] = [kind |-> "callback", input |-> XorInput(4), target |-> XorTarget(4)]

----------------------------------------------------------------------------
\* C19: for every model m, serialize(m) returns (a string), and
\* unserialize of a form the same class serialized returns (a model of
\* equal observable state, a distinct instance).
C19_SerializeRoundTrip ==
    /\ call = "serialize" => (pc = "done" /\ exception = "none")
    /\ (call = "unserialize" /\ args.cls = args.serialized_by) =>
            (pc = "done" /\ exception = "none")

\* C20: unserialize applied to a form serialized by a different model
\* family (Model.unserialize on the serialization of a subclass instance)
\* fails with ValueError and with no other kind of failure.
C20_UnserializeForeign ==
    (call = "unserialize" /\ args.cls # args.serialized_by) =>
        (pc = "raised" /\ exception = "ValueError")

----------------------------------------------------------------------------
\* C21: Model.train accepts error_improve_iters=k and stops once the error
\* has not improved on the best error seen for k consecutive iterations: a
\* constant error 1.0 with k=5 stops at iteration 6, and the errors 1.0,
\* 0.99, 0.98, 0.97, 0.97, ... with k=5 stop at iteration 9.
C21_NoImprovementBreak ==
    (call = "train" /\ error_improve_iters # None) =>
        /\ pc # "raised" /\ exception = "none"
        /\ (pc = "done" /\ error_improve_iters = <<5>>) =>
              /\ outputs = <<Milli(1000)>> => iteration = 6
              /\ outputs = NoImprovement => iteration = 9

----------------------------------------------------------------------------
HookNames == <<"pattern_select_func", "pre_iteration", "train_step", "post_iteration">>
\* the first n calls of an iteration were made, once each and in order, all
\* on the batch this iteration's selection returned
CallsMade(n) ==
    /\ Len(hook_calls) = n
    /\ \A k \in 1..n :
          /\ hook_calls[k].name = HookNames[k]
          /\ hook_calls[k].batch = selected_patterns

\* C22: in every iteration of Model.train the calls happen in the order
\* pattern_select_func, pre_iteration, train_step, post_iteration, each
\* exactly once, the three hooks on the batch this iteration's selection
\* returned; post_iteration has run also when the iteration breaks the loop.
C22_IterationCallOrder ==
    call = "train" =>
        /\ pc = "pre_iteration" => CallsMade(1)
        /\ pc = "train_step" => CallsMade(2)
        /\ pc \in {"optimizer", "post_iteration"} => CallsMade(3)
        /\ pc \in {"check", "attempt_end", "done"} => CallsMade(4)
        /\ (pc = "select" /\ loop_index >= 1) => CallsMade(4)
        /\ (pc \in {"check", "attempt_end", "done"} /\ attempt = 0) =>
              steps = loop_index

\* an iteration that breaks on error_break, on a batch of two sampled rows
C22_Witness ==
    /\ call = "train" /\ pc = "attempt_end"
    /\ broke = "error_break"
    /\ family = "increment"
    /\ selected_rows = <<3, 0>>
    /\ CallsMade(4)

----------------------------------------------------------------------------
\* C23: Model.train never evaluates avg_mse (and so never calls activate)
\* after the final attempt, whose index equals retries; avg_mse is
\* evaluated only at the end of an attempt that still has retries left and
\* whose last error is defined, at most once per such attempt, and never
\* when retries = 0.
C23_AvgMseOnlyWithRetriesLeft ==
    /\ [][avg_mse_calls' # avg_mse_calls =>
            /\ pc = "attempt_end"
            /\ attempt < retries
            /\ error # None
            /\ avg_mse_calls' = avg_mse_calls + 1]_vars
    /\ [][(pc = "attempt_end" /\ (attempt >= retries \/ error = None)) =>
            /\ avg_mse_calls' = avg_mse_calls
            /\ similarity_tensor' = similarity_tensor]_vars
    /\ []((call = "train" /\ retries = 0) => avg_mse_calls = 0)
    /\ [](avg_mse_calls <= attempt + 1 /\ avg_mse_calls <= retries)

\* a train call that evaluated avg_mse after attempt 0 and not after its
\* final attempt
C23_Witness ==
    /\ call = "train" /\ pc = "done"
    /\ retries = 1 /\ attempt = 1
    /\ error # None
    /\ avg_mse_calls = 1

----------------------------------------------------------------------------
\* every train_step of this train call returned, and returned None
EveryStepNone ==
    /\ steps >= 1
    /\ defined_errors = 0
    /\ exception \in {"none", "NotImplementedError"}

\* C24: if train_step returns None at an iteration of Model.train, neither
\* the error_break check nor the stagnation check runs and the error
\* history is left unchanged; a model whose every step returns None runs
\* exactly `iterations` iterations in every attempt and is reset and
\* retried until all retries+1 attempts are used.
C24_NoErrorNoBreak ==
    /\ [][(pc = "check" /\ error = None) =>
            /\ error_history' = error_history
            /\ broke' \notin {"error_break", "stagnant"}]_vars
    /\ []((call = "train" /\ pc \in {"done", "raised"} /\ EveryStepNone) =>
            /\ pc = "done"
            /\ attempt = retries
            /\ reset_calls = retries
            /\ steps = iterations * (retries + 1))

\* C25: whenever _get_obj_jac has computed the Jacobian, the similarity tensor
\* that was multiplied with dError/dOutput is the one activate cached for the
\* current batch under the probed parameter vector xk (unflattened and
\* installed before the activation), and the returned vector is laid out like
\* the parameter vector: the bias gradient (column sums of dError/dOutput)
\* first, then the weight gradient (similarity^T . dError/dOutput) row by row.
C25_JacobianFromFreshActivation ==
    (pc = "optimizer" /\ jacobian_trace.flat # None) =>
        LET t == jacobian_trace
            c == shape[1]
            o == shape[2]
            n == Len(selected_patterns[1])
        IN /\ t.activated.batch = selected_patterns[1]
           /\ t.activated.parameters = UnflattenWeights(t.probed, shape)
           /\ t.multiplied = t.activated.similarity
           /\ t.multiplied = Similarity(BatchGaussian(n, c), scale_by_similarity)
           /\ Len(t.flat) = Len(t.probed)
           /\ \A j \in 1..o :
                t.flat[j] = RatSum([r \in 1..n |-> <<t.error_jac[r][j], 1>>])
           /\ \A i \in 1..c, j \in 1..o :
                t.flat[o + (i - 1) * o + j] =
                    RatSum([r \in 1..n |->
                        RatMul(t.multiplied[r][i], <<t.error_jac[r][j], 1>>)])
           /\ UnflattenWeights(t.flat, shape) =
                <<BiasJacobian(t.error_jac), WeightJacobian(t.multiplied, t.error_jac)>>

\* a Jacobian of a two-cluster, two-output RBF whose bias gradient differs
\* from its weight gradient, computed inside a train call
C25_Witness ==
    /\ call = "train"
    /\ pc = "optimizer"
    /\ shape = <<2, 2>>
    /\ jacobian_trace.flat # None
    /\ jacobian_trace.probed = optimizer.probed
    /\ jacobian_trace.flat[1] # jacobian_trace.flat[5]
====
